---- MODULE Spec2Model ----
(***************************************************************************)
(* Model of the GapConductance material                                    *)
(* (modules/heat_conduction/src/materials/GapConductance.C).               *)
(*                                                                         *)
(* A Real is modelled as an exact rational <<n, d>> in lowest terms with   *)
(* d > 0, extended by the IEEE-754 specials the code can produce:          *)
(* <<1, 0>> is +inf, <<-1, 0>> is -inf and <<0, 0>> is NaN.  Zero is +0.   *)
(* Rounding of finite results is not modelled.                             *)
(***************************************************************************)
EXTENDS Integers, Sequences, FiniteSets, TLC

(***************************************************************************)
(* Bounds of the explored input space.                                     *)
(***************************************************************************)
MaxCoord == 1
MaxTemp == 2
MaxDist == 1
MaxCalls == 2

(***************************************************************************)
(* Real arithmetic.                                                        *)
(***************************************************************************)
Abs(x) == IF x < 0 THEN -x ELSE x

Sign(x) == IF x < 0 THEN -1 ELSE IF x > 0 THEN 1 ELSE 0

RECURSIVE GCD(_, _)
GCD(a, b) == IF b = 0 THEN a ELSE GCD(b, a % b)

Rat(n, d) ==
  IF d = 0 THEN <<Sign(n), 0>>
  ELSE LET g == GCD(Abs(n), Abs(d))
           s == Sign(d)
       IN  <<(s * n) \div g, (s * d) \div g>>

I(n) == <<n, 1>>

NaN == <<0, 0>>

PInf == <<1, 0>>

NInf == <<-1, 0>>

IsNaN(a) == a = NaN

RNeg(a) == <<-a[1], a[2]>>

RAdd(a, b) ==
  IF a[2] = 0 /\ b[2] = 0
  THEN (IF a = b THEN a ELSE NaN)
  ELSE Rat(a[1] * b[2] + b[1] * a[2], a[2] * b[2])

RSub(a, b) == RAdd(a, RNeg(b))

RMul(a, b) == Rat(a[1] * b[1], a[2] * b[2])

RRecip(a) ==
  IF a = NaN THEN NaN
  ELSE IF a[1] = 0 THEN PInf
  ELSE Rat(Sign(a[1]) * a[2], Abs(a[1]))

RDiv(a, b) == RMul(a, RRecip(b))

Floor(a) == a[1] \div a[2]

\* operator< on doubles: false as soon as one side is NaN
RLt(a, b) ==
  IF IsNaN(a) \/ IsNaN(b) THEN FALSE
  ELSE IF a[2] = 0 \/ b[2] = 0
       THEN (a = NInf /\ b # NInf) \/ (b = PInf /\ a # PInf)
       ELSE LET fa == Floor(a)
                fb == Floor(b)
            IN  IF fa # fb THEN fa < fb
                ELSE (a[1] - fa * a[2]) * b[2] < (b[1] - fb * b[2]) * a[2]

RLe(a, b) == (~IsNaN(a)) /\ (~IsNaN(b)) /\ ~RLt(b, a)

\* std::min(a, b) is (b < a) ? b : a
StdMin(a, b) == IF RLt(b, a) THEN b ELSE a

\* std::max(a, b) is (a < b) ? b : a
StdMax(a, b) == IF RLt(a, b) THEN b ELSE a

IsSquare(n) == \E r \in 0..n : r * r = n

ISqrt(n) == CHOOSE r \in 0..n : r * r = n

\* the inputs are kept to values whose square root is a rational
HasSqrt(a) == (a[2] = 0) \/ (a[1] < 0) \/ (IsSquare(a[1]) /\ IsSquare(a[2]))

StdSqrt(a) ==
  IF a[2] = 0 THEN (IF a = NInf THEN NaN ELSE a)
  ELSE IF a[1] < 0 THEN NaN
  ELSE <<ISqrt(a[1]), ISqrt(a[2])>>

\* std::log on its special values; elsewhere its first Pade approximant
\* 2 (q - 1) / (q + 1), which has the sign and the zero of the logarithm
StdLog(q) ==
  IF IsNaN(q) THEN NaN
  ELSE IF q = PInf THEN PInf
  ELSE IF q[1] < 0 THEN NaN
  ELSE IF q[1] = 0 THEN NInf
  ELSE RDiv(RMul(I(2), RSub(q, I(1))), RAdd(q, I(1)))

(***************************************************************************)
(* libMesh Point / RealVectorValue.                                        *)
(***************************************************************************)
Pt(x, y, z) == <<I(x), I(y), I(z)>>

VSub(u, v) == <<RSub(u[1], v[1]), RSub(u[2], v[2]), RSub(u[3], v[3])>>

VAdd(u, v) == <<RAdd(u[1], v[1]), RAdd(u[2], v[2]), RAdd(u[3], v[3])>>

VScale(t, v) == <<RMul(t, v[1]), RMul(t, v[2]), RMul(t, v[3])>>

VDivide(v, t) == <<RDiv(v[1], t), RDiv(v[2], t), RDiv(v[3], t)>>

VDot(u, v) == RAdd(RAdd(RMul(u[1], v[1]), RMul(u[2], v[2])), RMul(u[3], v[3]))

VNormSq(v) == VDot(v, v)

VNorm(v) == StdSqrt(VNormSq(v))

(***************************************************************************)
(* State of one GapConductance object and of the evaluation point the      *)
(* framework currently presents to it.                                     *)
(***************************************************************************)
\* phase     : "constructed", "setup_done", "evaluated", "config_error", "geometry_error"
\* coord_sys : _coord_sys, one of "XYZ", "RZ", "RSPHERICAL"
\* pars      : _pars, the input parameters of the object
\* m         : the member variables the object mutates
\* out       : the properties gap_conductance and gap_conductance_dT at _qp
\* ctx       : _qp's point, normal, temperature, coupled values, search result
\* warning   : TRUE when the last evaluation emitted the mooseWarning
\* calls     : the number of computeQpProperties calls made so far
\* call, ret : arguments and return value of the static gap-length helper
VARIABLES phase, coord_sys, pars, m, out, ctx, warning, calls, call, ret

vars == <<phase, coord_sys, pars, m, out, ctx, warning, calls, call, ret>>

NoPoint == [valid |-> FALSE, value |-> Pt(0, 0, 0)]

Supplied(v) == [valid |-> TRUE, value |-> v]

\* _emissivity as the constructor's initializer list sets it
emissivity(p) ==
  IF p.emissivity_1 # I(0) /\ p.emissivity_2 # I(0)
  THEN RSub(RAdd(RDiv(I(1), p.emissivity_1), RDiv(I(1), p.emissivity_2)), I(1))
  ELSE I(0)

\* the members after GapConductance::GapConductance
Constructed ==
  [gap_geometry_type |-> "PLATE",
   p1 |-> Pt(0, 0, 0),
   p2 |-> Pt(0, 0, 0),
   gap_temp |-> I(0),
   gap_distance |-> I(88888),
   radius |-> I(0),
   r1 |-> I(0),
   r2 |-> I(0),
   has_info |-> FALSE]

NoProperties ==
  [gap_conductance |-> I(0),
   gap_conductance_dT |-> I(0)]

(***************************************************************************)
(* GapConductance::setGapGeometryParameters.  The result carries err = TRUE*)
(* when a mooseError ends the call; the by-reference outputs then keep what*)
(* was assigned before the error.                                          *)
(***************************************************************************)
ResolvedType(params, cs, old) ==
  IF params.gap_geometry_type # "unset" THEN params.gap_geometry_type
  ELSE IF cs = "XYZ" THEN "PLATE"
  ELSE IF cs = "RZ" THEN "CYLINDER"
  ELSE IF cs = "RSPHERICAL" THEN "SPHERE"
  ELSE old
\* setGapGeometryParameters with && for || in the Cartesian CYLINDER check
setGapGeometryParameters_and(params, cs, gap_geometry_type, p1, p2) ==
  LET t == ResolvedType(params, cs, gap_geometry_type)
      ok(a, b) == [err |-> FALSE, gap_geometry_type |-> t, p1 |-> a, p2 |-> b]
      fail == [err |-> TRUE, gap_geometry_type |-> t, p1 |-> p1, p2 |-> p2]
  IN  IF t = "PLATE"
      THEN (IF cs = "RSPHERICAL" THEN fail ELSE ok(p1, p2))
      ELSE IF t = "CYLINDER"
      THEN (IF cs = "XYZ"
            THEN (IF (~params.cylinder_axis_point_1.valid) /\
                     (~params.cylinder_axis_point_2.valid)
                  THEN fail
                  ELSE ok(params.cylinder_axis_point_1.value,
                          params.cylinder_axis_point_2.value))
            ELSE IF cs = "RZ"
            THEN (IF params.cylinder_axis_point_1.valid \/
                     params.cylinder_axis_point_2.valid
                  THEN fail
                  ELSE ok(Pt(0, 0, 0), Pt(0, 1, 0)))
            ELSE fail)
      ELSE (IF cs = "XYZ" \/ cs = "RZ"
            THEN (IF ~params.sphere_origin.valid
                  THEN fail
                  ELSE ok(params.sphere_origin.value, p2))
            ELSE (IF params.sphere_origin.valid
                  THEN fail
                  ELSE ok(Pt(0, 0, 0), p2)))

setGapGeometryParameters(params, cs, gap_geometry_type, p1, p2) ==
  LET t == ResolvedType(params, cs, gap_geometry_type)
      ok(a, b) == [err |-> FALSE, gap_geometry_type |-> t, p1 |-> a, p2 |-> b]
      fail == [err |-> TRUE, gap_geometry_type |-> t, p1 |-> p1, p2 |-> p2]
  IN  IF t = "PLATE"
      THEN (IF cs = "RSPHERICAL" THEN fail ELSE ok(p1, p2))
      ELSE IF t = "CYLINDER"
      THEN (IF cs = "XYZ"
            THEN (IF (~params.cylinder_axis_point_1.valid) \/
                     (~params.cylinder_axis_point_2.valid)
                  THEN fail
                  ELSE ok(params.cylinder_axis_point_1.value,
                          params.cylinder_axis_point_2.value))
            ELSE IF cs = "RZ"
            THEN (IF params.cylinder_axis_point_1.valid \/
                     params.cylinder_axis_point_2.valid
                  THEN fail
                  ELSE ok(Pt(0, 0, 0), Pt(0, 1, 0)))
            ELSE fail)
      ELSE (IF cs = "XYZ" \/ cs = "RZ"
            THEN (IF ~params.sphere_origin.valid
                  THEN fail
                  ELSE ok(params.sphere_origin.value, p2))
            ELSE (IF params.sphere_origin.valid
                  THEN fail
                  ELSE ok(Pt(0, 0, 0), p2)))

\* GapConductance::initialSetup
initialSetup ==
  /\ phase = "constructed"
  /\ LET g == setGapGeometryParameters(pars, coord_sys, m.gap_geometry_type, m.p1, m.p2)
     IN  /\ m' = [m EXCEPT !.gap_geometry_type = g.gap_geometry_type,
                           !.p1 = g.p1,
                           !.p2 = g.p2]
         /\ phase' = IF g.err THEN "config_error" ELSE "setup_done"
  /\ UNCHANGED <<coord_sys, pars, out, ctx, warning, calls, call, ret>>

(***************************************************************************)
(* The gap-length helpers.                                                 *)
(***************************************************************************)
\* gapRect with the two limits exchanged
gapRect_swapped(distance, min_gap, max_gap) == StdMax(max_gap, StdMin(distance, min_gap))

gapRect(distance, min_gap, max_gap) == StdMax(min_gap, StdMin(distance, max_gap))

gapCyl(radius, r1, r2, min_denom, max_denom) ==
  LET denominator == RMul(radius, StdLog(RDiv(r2, r1)))
  IN  StdMax(min_denom, StdMin(denominator, max_denom))

gapSphere(radius, r1, r2, min_denom, max_denom) ==
  LET denominator == RMul(RMul(radius, radius), RSub(RDiv(I(1), r1), RDiv(I(1), r2)))
  IN  StdMax(min_denom, StdMin(denominator, max_denom))

gapLength(gap_geom, radius, r1, r2, min_gap, max_gap) ==
  IF gap_geom = "CYLINDER" THEN gapCyl(radius, r1, r2, min_gap, max_gap)
  ELSE IF gap_geom = "SPHERE" THEN gapSphere(radius, r1, r2, min_gap, max_gap)
  ELSE gapRect(RSub(r2, r1), min_gap, max_gap)

(***************************************************************************)
(* GapConductance::computeGapRadii.  err = TRUE is the mooseError branch,  *)
(* which leaves r1, r2 and radius as they were passed in.                  *)
(***************************************************************************)
\* the vector from the nearest point of the axis p1 + t (p2 - p1) to current_point
RadVec(current_point, p1, p2) ==
  LET nearest(p2p1, p1pc) ==
        VAdd(p1, VScale(RDiv(RNeg(VDot(p1pc, p2p1)), VNormSq(p2p1)), p2p1))
  IN  VSub(current_point, nearest(VSub(p2, p1), VSub(p1, current_point)))

\* rad (CYLINDER) or curr_point_radius (SPHERE)
PointRadius(gap_geometry_type, current_point, p1, p2) ==
  IF gap_geometry_type = "CYLINDER"
  THEN VNorm(RadVec(current_point, p1, p2))
  ELSE VNorm(VSub(current_point, p1))

\* rad_dot_norm (CYLINDER) or normal_dot (SPHERE)
NormalDot(gap_geometry_type, current_point, p1, p2, current_normal) ==
  LET unit(rad_vec) == VDivide(rad_vec, VNorm(rad_vec))
  IN  IF gap_geometry_type = "CYLINDER"
      THEN VDot(unit(RadVec(current_point, p1, p2)), current_normal)
      ELSE VDot(VSub(current_point, p1), current_normal)

\* computeGapRadii taking a zero dot product for the outer surface (<= for <)
computeGapRadii_le(gap_geometry_type, current_point, p1, p2, gap_distance, current_normal, r1, r2, radius) ==
  LET set(a, b, c) == [err |-> FALSE, r1 |-> a, r2 |-> b, radius |-> c]
      error == [err |-> TRUE, r1 |-> r1, r2 |-> r2, radius |-> radius]
      cylinder(rad, rad_dot_norm) ==
        IF RLt(I(0), rad_dot_norm) THEN set(rad, RSub(rad, gap_distance), rad)
        ELSE IF RLe(rad_dot_norm, I(0)) THEN set(RAdd(rad, gap_distance), rad, rad)
        ELSE error
      sphere(curr_point_radius, normal_dot) ==
        IF RLt(I(0), normal_dot)
        THEN set(curr_point_radius, RSub(curr_point_radius, gap_distance), curr_point_radius)
        ELSE IF RLe(normal_dot, I(0))
        THEN set(RAdd(curr_point_radius, gap_distance), curr_point_radius, curr_point_radius)
        ELSE error
  IN  IF gap_geometry_type = "CYLINDER"
      THEN cylinder(PointRadius(gap_geometry_type, current_point, p1, p2),
                    NormalDot(gap_geometry_type, current_point, p1, p2, current_normal))
      ELSE IF gap_geometry_type = "SPHERE"
      THEN sphere(PointRadius(gap_geometry_type, current_point, p1, p2),
                  NormalDot(gap_geometry_type, current_point, p1, p2, current_normal))
      ELSE set(I(0), RNeg(gap_distance), I(0))

\* computeGapRadii subtracting gap_distance on the outer surface
computeGapRadii_sign(gap_geometry_type, current_point, p1, p2, gap_distance, current_normal, r1, r2, radius) ==
  LET set(a, b, c) == [err |-> FALSE, r1 |-> a, r2 |-> b, radius |-> c]
      error == [err |-> TRUE, r1 |-> r1, r2 |-> r2, radius |-> radius]
      cylinder(rad, rad_dot_norm) ==
        IF RLt(I(0), rad_dot_norm) THEN set(rad, RSub(rad, gap_distance), rad)
        ELSE IF RLt(rad_dot_norm, I(0)) THEN set(RSub(rad, gap_distance), rad, rad)
        ELSE error
      sphere(curr_point_radius, normal_dot) ==
        IF RLt(I(0), normal_dot)
        THEN set(curr_point_radius, RSub(curr_point_radius, gap_distance), curr_point_radius)
        ELSE IF RLt(normal_dot, I(0))
        THEN set(RSub(curr_point_radius, gap_distance), curr_point_radius, curr_point_radius)
        ELSE error
  IN  IF gap_geometry_type = "CYLINDER"
      THEN cylinder(PointRadius(gap_geometry_type, current_point, p1, p2),
                    NormalDot(gap_geometry_type, current_point, p1, p2, current_normal))
      ELSE IF gap_geometry_type = "SPHERE"
      THEN sphere(PointRadius(gap_geometry_type, current_point, p1, p2),
                  NormalDot(gap_geometry_type, current_point, p1, p2, current_normal))
      ELSE set(I(0), RNeg(gap_distance), I(0))

computeGapRadii(gap_geometry_type, current_point, p1, p2, gap_distance, current_normal, r1, r2, radius) ==
  LET set(a, b, c) == [err |-> FALSE, r1 |-> a, r2 |-> b, radius |-> c]
      error == [err |-> TRUE, r1 |-> r1, r2 |-> r2, radius |-> radius]
      cylinder(rad, rad_dot_norm) ==
        IF RLt(I(0), rad_dot_norm) THEN set(rad, RSub(rad, gap_distance), rad)
        ELSE IF RLt(rad_dot_norm, I(0)) THEN set(RAdd(rad, gap_distance), rad, rad)
        ELSE error
      sphere(curr_point_radius, normal_dot) ==
        IF RLt(I(0), normal_dot)
        THEN set(curr_point_radius, RSub(curr_point_radius, gap_distance), curr_point_radius)
        ELSE IF RLt(normal_dot, I(0))
        THEN set(RAdd(curr_point_radius, gap_distance), curr_point_radius, curr_point_radius)
        ELSE error
  IN  IF gap_geometry_type = "CYLINDER"
      THEN cylinder(PointRadius(gap_geometry_type, current_point, p1, p2),
                    NormalDot(gap_geometry_type, current_point, p1, p2, current_normal))
      ELSE IF gap_geometry_type = "SPHERE"
      THEN sphere(PointRadius(gap_geometry_type, current_point, p1, p2),
                  NormalDot(gap_geometry_type, current_point, p1, p2, current_normal))
      ELSE set(I(0), RNeg(gap_distance), I(0))

(***************************************************************************)
(* GapConductance::computeGapValues.                                       *)
(***************************************************************************)
\* the loop over slave_side_dof_indices, accumulating into _gap_temp
RECURSIVE Interpolate(_, _, _, _)
Interpolate(acc, side_phi, solution, i) ==
  IF i > Len(solution) THEN acc
  ELSE Interpolate(RAdd(acc, RMul(side_phi[i], solution[i])), side_phi, solution, i + 1)
\* computeGapValues without the reset of _gap_temp before the interpolation loop
computeGapValues_accumulate(p, mem, c) ==
  LET gap == IF ~p.quadrature
             THEN [has_info |-> TRUE,
                   gap_temp |-> c.gap_temp_value,
                   gap_distance |-> c.gap_distance_value,
                   warned |-> FALSE]
             ELSE IF c.pinfo.found
             THEN [has_info |-> TRUE,
                   gap_temp |-> Interpolate(mem.gap_temp, c.pinfo.side_phi, c.pinfo.solution, 1),
                   gap_distance |-> c.pinfo.distance,
                   warned |-> FALSE]
             ELSE [has_info |-> FALSE,
                   gap_temp |-> mem.gap_temp,
                   gap_distance |-> I(88888),
                   warned |-> p.warnings]
      assign(g, r) ==
        [err |-> r.err,
         warned |-> g.warned,
         m |-> [mem EXCEPT !.has_info = g.has_info,
                           !.gap_temp = g.gap_temp,
                           !.gap_distance = g.gap_distance,
                           !.r1 = r.r1,
                           !.r2 = r.r2,
                           !.radius = r.radius]]
      radii(g) ==
        assign(g, computeGapRadii(mem.gap_geometry_type, c.q_point, mem.p1, mem.p2,
                                  g.gap_distance, c.normal, mem.r1, mem.r2, mem.radius))
  IN  radii(gap)

\* computeGapValues putting the geometry back to the constructor's values
\* when the search finds nothing
computeGapValues_reset(p, mem, c) ==
  LET gap == IF ~p.quadrature
             THEN [has_info |-> TRUE,
                   gap_temp |-> c.gap_temp_value,
                   gap_distance |-> c.gap_distance_value,
                   warned |-> FALSE]
             ELSE IF c.pinfo.found
             THEN [has_info |-> TRUE,
                   gap_temp |-> Interpolate(I(0), c.pinfo.side_phi, c.pinfo.solution, 1),
                   gap_distance |-> c.pinfo.distance,
                   warned |-> FALSE]
             ELSE [has_info |-> FALSE,
                   gap_temp |-> I(0),
                   gap_distance |-> I(88888),
                   warned |-> p.warnings]
      geo == IF p.quadrature /\ ~c.pinfo.found
             THEN [mem EXCEPT !.gap_geometry_type = "PLATE",
                              !.p1 = Pt(0, 0, 0),
                              !.p2 = Pt(0, 0, 0)]
             ELSE mem
      assign(g, r) ==
        [err |-> r.err,
         warned |-> g.warned,
         m |-> [geo EXCEPT !.has_info = g.has_info,
                           !.gap_temp = g.gap_temp,
                           !.gap_distance = g.gap_distance,
                           !.r1 = r.r1,
                           !.r2 = r.r2,
                           !.radius = r.radius]]
      radii(g) ==
        assign(g, computeGapRadii(geo.gap_geometry_type, c.q_point, geo.p1, geo.p2,
                                  g.gap_distance, c.normal, geo.r1, geo.r2, geo.radius))
  IN  radii(gap)

computeGapValues(p, mem, c) ==
  LET gap == IF ~p.quadrature
             THEN [has_info |-> TRUE,
                   gap_temp |-> c.gap_temp_value,
                   gap_distance |-> c.gap_distance_value,
                   warned |-> FALSE]
             ELSE IF c.pinfo.found
             THEN [has_info |-> TRUE,
                   gap_temp |-> Interpolate(I(0), c.pinfo.side_phi, c.pinfo.solution, 1),
                   gap_distance |-> c.pinfo.distance,
                   warned |-> FALSE]
             ELSE [has_info |-> FALSE,
                   gap_temp |-> I(0),
                   gap_distance |-> I(88888),
                   warned |-> p.warnings]
      assign(g, r) ==
        [err |-> r.err,
         warned |-> g.warned,
         m |-> [mem EXCEPT !.has_info = g.has_info,
                           !.gap_temp = g.gap_temp,
                           !.gap_distance = g.gap_distance,
                           !.r1 = r.r1,
                           !.r2 = r.r2,
                           !.radius = r.radius]]
      radii(g) ==
        assign(g, computeGapRadii(mem.gap_geometry_type, c.q_point, mem.p1, mem.p2,
                                  g.gap_distance, c.normal, mem.r1, mem.r2, mem.radius))
  IN  radii(gap)

(***************************************************************************)
(* The conductance model.                                                  *)
(***************************************************************************)
gapK(p, c) ==
  IF p.gap_conductivity_function
  THEN RMul(p.gap_conductivity, c.function_value)
  ELSE p.gap_conductivity
\* h_conduction multiplying the conductivity by the gap length
h_conduction_times(p, mem, c) ==
  RMul(gapK(p, c),
       gapLength(mem.gap_geometry_type, mem.radius, mem.r1, mem.r2, p.min_gap, p.max_gap))

h_conduction(p, mem, c) ==
  RDiv(gapK(p, c),
       gapLength(mem.gap_geometry_type, mem.radius, mem.r1, mem.r2, p.min_gap, p.max_gap))

dh_conduction == I(0)
\* h_radiation multiplying by the emissivity factor instead of dividing
h_radiation_times(p, mem, c) ==
  IF emissivity(p) = I(0) THEN I(0)
  ELSE LET temp_func == RMul(RAdd(RMul(c.temp, c.temp), RMul(mem.gap_temp, mem.gap_temp)),
                             RAdd(c.temp, mem.gap_temp))
       IN  RMul(RMul(p.stefan_boltzmann, temp_func), emissivity(p))

h_radiation(p, mem, c) ==
  IF emissivity(p) = I(0) THEN I(0)
  ELSE LET temp_func == RMul(RAdd(RMul(c.temp, c.temp), RMul(mem.gap_temp, mem.gap_temp)),
                             RAdd(c.temp, mem.gap_temp))
       IN  RDiv(RMul(p.stefan_boltzmann, temp_func), emissivity(p))

dh_radiation(p, mem, c) ==
  IF emissivity(p) = I(0) THEN I(0)
  ELSE LET temp_func == RAdd(RMul(RMul(I(3), c.temp), c.temp),
                             RMul(mem.gap_temp, RAdd(RMul(I(2), c.temp), mem.gap_temp)))
       IN  RDiv(RMul(p.stefan_boltzmann, temp_func), emissivity(p))
\* computeQpConductance without the _has_info test
computeQpConductance_unguarded(p, mem, c, o) ==
  [o EXCEPT !.gap_conductance = RAdd(h_conduction(p, mem, c), h_radiation(p, mem, c)),
            !.gap_conductance_dT = dh_conduction]

computeQpConductance(p, mem, c, o) ==
  IF mem.has_info
  THEN [o EXCEPT !.gap_conductance = RAdd(h_conduction(p, mem, c), h_radiation(p, mem, c)),
                 !.gap_conductance_dT = dh_conduction]
  ELSE [o EXCEPT !.gap_conductance = I(0),
                 !.gap_conductance_dT = I(0)]

\* GapConductance::computeQpProperties; a mooseError in computeGapValues ends
\* the call before computeQpConductance
computeQpProperties(p, mem, c, o) ==
  LET conductance(v) ==
        [err |-> v.err,
         warned |-> v.warned,
         m |-> v.m,
         out |-> IF v.err THEN o ELSE computeQpConductance(p, v.m, c, o)]
  IN  conductance(computeGapValues(p, mem, c))

(***************************************************************************)
(* Input spaces.                                                           *)
(***************************************************************************)
GeometryChoices == {"unset", "PLATE", "CYLINDER", "SPHERE"}

CoordSystems == {"XYZ", "RZ", "RSPHERICAL"}

AxisPoints1 == {NoPoint, Supplied(Pt(0, 0, 0)), Supplied(Pt(1, 0, 0))}

AxisPoints2 == {NoPoint, Supplied(Pt(0, 1, 0)), Supplied(Pt(1, 0, 0))}

Origins == {NoPoint, Supplied(Pt(1, 0, 0))}

Material(k, f, e1, e2, sb, lo, hi, w) ==
  [gap_conductivity |-> k,
   gap_conductivity_function |-> f,
   emissivity_1 |-> e1,
   emissivity_2 |-> e2,
   stefan_boltzmann |-> sb,
   min_gap |-> lo,
   max_gap |-> hi,
   warnings |-> w]

\* the defaults of min_gap and max_gap, radiation off
DefaultMaterial ==
  Material(I(1), FALSE, I(0), I(0), Rat(1, 2), Rat(1, 1000000), I(1000000), FALSE)

ScaledMaterial == Material(I(2), TRUE, Rat(1, 2), I(1), Rat(1, 2), Rat(1, 2), I(2), TRUE)

RadiatingMaterial == Material(I(1), FALSE, Rat(4, 5), Rat(4, 5), I(3), I(0), I(1), FALSE)

HalfRadiatingMaterial == Material(I(2), FALSE, I(0), I(1), I(3), I(2), I(1), TRUE)

PlainMaterial == Material(I(2), FALSE, I(0), I(0), I(3), Rat(1, 2), I(1), FALSE)

Materials ==
  {DefaultMaterial, PlainMaterial, ScaledMaterial, RadiatingMaterial, HalfRadiatingMaterial}

Geometry(t, a1, a2, o) ==
  [gap_geometry_type |-> t,
   cylinder_axis_point_1 |-> a1,
   cylinder_axis_point_2 |-> a2,
   sphere_origin |-> o]

Geometries ==
  { Geometry(t, a1, a2, o) : t \in GeometryChoices, a1 \in AxisPoints1,
                             a2 \in AxisPoints2, o \in Origins }

\* no point is supplied that the resolved geometry type never reads
Lean(g, cs) ==
  LET t == ResolvedType(g, cs, "PLATE")
  IN  /\ t # "CYLINDER" => (~g.cylinder_axis_point_1.valid) /\ (~g.cylinder_axis_point_2.valid)
      /\ t # "SPHERE" => ~g.sphere_origin.valid

Parameters(g, mat, q) ==
  [gap_geometry_type |-> g.gap_geometry_type,
   cylinder_axis_point_1 |-> g.cylinder_axis_point_1,
   cylinder_axis_point_2 |-> g.cylinder_axis_point_2,
   sphere_origin |-> g.sphere_origin,
   quadrature |-> q,
   gap_conductivity |-> mat.gap_conductivity,
   gap_conductivity_function |-> mat.gap_conductivity_function,
   emissivity_1 |-> mat.emissivity_1,
   emissivity_2 |-> mat.emissivity_2,
   stefan_boltzmann |-> mat.stefan_boltzmann,
   min_gap |-> mat.min_gap,
   max_gap |-> mat.max_gap,
   warnings |-> mat.warnings]

QPoints == {Pt(x, 0, 0) : x \in 0..MaxCoord} \cup {Pt(1, 1, 0)}

Normals == {Pt(1, 0, 0), Pt(-1, 0, 0), Pt(0, 1, 0)}

Temps == {I(t) : t \in 1..MaxTemp}

Distances == {I(d) : d \in (-MaxDist)..MaxDist} \cup {Rat(-1, 50), Rat(1, 50)}

FunctionValues == {Rat(1, 2), I(3)}

NoInfo == [found |-> FALSE, distance |-> I(0), side_phi |-> <<>>, solution |-> <<>>]

PenetrationInfos ==
  {NoInfo} \cup
  { [found |-> TRUE, distance |-> I(d), side_phi |-> w[1], solution |-> w[2]] :
      d \in (-MaxDist)..1,
      w \in { <<<<I(1)>>, <<I(MaxTemp)>>>>,
              <<<<Rat(1, 2), Rat(1, 2)>>, <<I(1), I(2)>>>> } }

\* the distance of the point from the axis or origin is a rational
Measurable(mem, q_point) ==
  IF mem.gap_geometry_type = "CYLINDER"
  THEN HasSqrt(VNormSq(RadVec(q_point, mem.p1, mem.p2)))
  ELSE IF mem.gap_geometry_type = "SPHERE"
  THEN HasSqrt(VNormSq(VSub(q_point, mem.p1)))
  ELSE TRUE

\* evaluation points that vary the geometry
GeometryContexts(p, mem) ==
  { c \in [q_point : QPoints,
           normal : Normals,
           temp : {I(1)},
           gap_distance_value : IF p.quadrature THEN {I(0)} ELSE Distances,
           gap_temp_value : IF p.quadrature THEN {I(0)} ELSE {I(MaxTemp)},
           pinfo : IF p.quadrature THEN PenetrationInfos ELSE {NoInfo},
           function_value : IF p.gap_conductivity_function THEN {I(3)} ELSE {I(1)}] :
      Measurable(mem, c.q_point) }

\* evaluation points that vary the temperatures
ThermalContexts(p, mem) ==
  [q_point : {Pt(1, 0, 0)},
   normal : {Pt(1, 0, 0)},
   temp : Temps,
   gap_distance_value : IF p.quadrature THEN {I(0)} ELSE Distances,
   gap_temp_value : IF p.quadrature THEN {I(0)} ELSE Temps,
   pinfo : IF p.quadrature THEN PenetrationInfos ELSE {NoInfo},
   function_value : IF p.gap_conductivity_function THEN FunctionValues ELSE {I(1)}]

NoContext ==
  [q_point |-> Pt(0, 0, 0),
   normal |-> Pt(0, 0, 0),
   temp |-> I(0),
   gap_distance_value |-> I(0),
   gap_temp_value |-> I(0),
   pinfo |-> NoInfo,
   function_value |-> I(1)]

NoCall ==
  [gap_geom |-> "none", radius |-> I(0), r1 |-> I(0), r2 |-> I(0),
   min_gap |-> I(0), max_gap |-> I(0)]

Lengths == {I(d) : d \in 0..(MaxDist + 1)}

GapCalls ==
  [gap_geom : {"PLATE", "CYLINDER", "SPHERE"},
   radius : {I(1), I(2)},
   r1 : Lengths,
   r2 : Lengths \cup {I(-1), I(5)},
   min_gap : {I(0), Rat(1, 2), I(2)},
   max_gap : {I(0), I(1), I(3)}]

(***************************************************************************)
(* The life of one object: construction, initialSetup, then one            *)
(* computeQpProperties per evaluation point until a mooseError ends it.    *)
(***************************************************************************)
InitObject(G, M, Q) ==
  /\ phase = "constructed"
  /\ coord_sys \in CoordSystems
  /\ \E g \in G, mat \in M, q \in Q : pars = Parameters(g, mat, q)
  /\ m = Constructed
  /\ out = NoProperties
  /\ ctx = NoContext
  /\ warning = FALSE
  /\ calls = 0
  /\ call = NoCall
  /\ ret = I(0)

\* one computeQpProperties call on the evaluation point c
Evaluate(c) ==
  /\ phase \in {"setup_done", "evaluated"}
  /\ calls < MaxCalls
  /\ calls' = calls + 1
  /\ \E v \in {computeQpProperties(pars, m, c, out)} :
       /\ ctx' = c
       /\ m' = v.m
       /\ out' = v.out
       /\ warning' = v.warned
       /\ phase' = IF v.err THEN "geometry_error" ELSE "evaluated"
  /\ UNCHANGED <<coord_sys, pars, call, ret>>

QpStep == \E c \in GeometryContexts(pars, m) : Evaluate(c)

QpStepThermal == \E c \in ThermalContexts(pars, m) : Evaluate(c)

\* every geometry, two materials, evaluation points that vary the geometry
Init ==
  /\ InitObject(Geometries, {ScaledMaterial, RadiatingMaterial}, BOOLEAN)
  /\ Lean(pars, coord_sys)

Next == initialSetup \/ QpStep

Spec == Init /\ [][Next]_vars

\* the default geometry of each coordinate system, every material,
\* evaluation points that vary the temperatures
InitThermal ==
  /\ InitObject(Geometries, Materials, BOOLEAN)
  /\ Lean(pars, coord_sys)
  /\ pars.gap_geometry_type = "unset"

NextThermal == initialSetup \/ QpStepThermal

SpecThermal == InitThermal /\ [][NextThermal]_vars

\* every combination of geometry parameters, up to initialSetup
InitSetup == InitObject(Geometries, {DefaultMaterial}, {FALSE})

NextSetup == initialSetup

SpecSetup == InitSetup /\ [][NextSetup]_vars

\* one call of the static helper gapLength
InitGap ==
  /\ phase = "helper_call"
  /\ coord_sys = "XYZ"
  /\ pars = Parameters(Geometry("unset", NoPoint, NoPoint, NoPoint), DefaultMaterial, FALSE)
  /\ m = Constructed
  /\ out = NoProperties
  /\ ctx = NoContext
  /\ warning = FALSE
  /\ calls = 0
  /\ call \in GapCalls
  /\ ret = I(0)

gapLengthCall ==
  /\ phase = "helper_call"
  /\ ret' = gapLength(call.gap_geom, call.radius, call.r1, call.r2, call.min_gap, call.max_gap)
  /\ phase' = "helper_done"
  /\ UNCHANGED <<coord_sys, pars, m, out, ctx, warning, calls, call>>

NextGap == gapLengthCall

SpecGap == InitGap /\ [][NextGap]_vars

(***************************************************************************)
(* Properties.                                                             *)
(***************************************************************************)

\* C1: initialSetup ends in a configuration error exactly for (PLATE,
\* spherical), (CYLINDER, Cartesian, an axis point missing), (CYLINDER,
\* axisymmetric, an axis point supplied), (CYLINDER, spherical), (SPHERE,
\* Cartesian or axisymmetric, no origin) and (SPHERE, spherical, origin
\* supplied), an unset type being first defaulted from the coordinate system;
\* otherwise it succeeds and leaves the resolved type and p1, p2.
C1_AcceptsExactly ==
  LET t == IF pars.gap_geometry_type # "unset" THEN pars.gap_geometry_type
           ELSE IF coord_sys = "XYZ" THEN "PLATE"
           ELSE IF coord_sys = "RZ" THEN "CYLINDER"
           ELSE "SPHERE"
      a1 == pars.cylinder_axis_point_1.valid
      a2 == pars.cylinder_axis_point_2.valid
      o == pars.sphere_origin.valid
      rejected ==
        \/ t = "PLATE" /\ coord_sys = "RSPHERICAL"
        \/ t = "CYLINDER" /\ coord_sys = "XYZ" /\ ((~a1) \/ (~a2))
        \/ t = "CYLINDER" /\ coord_sys = "RZ" /\ (a1 \/ a2)
        \/ t = "CYLINDER" /\ coord_sys = "RSPHERICAL"
        \/ t = "SPHERE" /\ coord_sys \in {"XYZ", "RZ"} /\ ~o
        \/ t = "SPHERE" /\ coord_sys = "RSPHERICAL" /\ o
  IN  phase # "constructed" =>
        /\ phase \in {"config_error", "setup_done"}
        /\ (phase = "config_error") <=> rejected
        /\ phase = "setup_done" =>
             /\ m.gap_geometry_type = t
             /\ t = "CYLINDER" /\ coord_sys = "XYZ" =>
                  /\ m.p1 = pars.cylinder_axis_point_1.value
                  /\ m.p2 = pars.cylinder_axis_point_2.value
             /\ t = "CYLINDER" /\ coord_sys = "RZ" =>
                  m.p1 = Pt(0, 0, 0) /\ m.p2 = Pt(0, 1, 0)
             /\ t = "SPHERE" /\ coord_sys # "RSPHERICAL" => m.p1 = pars.sphere_origin.value
             /\ t = "SPHERE" /\ coord_sys = "RSPHERICAL" => m.p1 = Pt(0, 0, 0)

\* a Cartesian CYLINDER with only cylinder_axis_point_1 has been rejected
C1_Witness ==
  /\ phase = "config_error"
  /\ pars.gap_geometry_type = "CYLINDER"
  /\ coord_sys = "XYZ"
  /\ pars.cylinder_axis_point_1.valid
  /\ ~pars.cylinder_axis_point_2.valid

\* C5 as stated: for every min_gap >= 0 and max_gap >= 0 the effective gap
\* length lies in [min_gap, max_gap] and clamping it again returns it.
C5_InInterval ==
  phase = "helper_done" =>
    /\ RLe(call.min_gap, ret)
    /\ RLe(ret, call.max_gap)
    /\ gapRect(ret, call.min_gap, call.max_gap) = ret

\* C5 amended: the effective gap length lies in [min_gap, max_gap] when
\* min_gap <= max_gap and is min_gap when min_gap > max_gap; clamping it
\* again returns it in both cases.
C5_InIntervalWhenOrdered ==
  phase = "helper_done" =>
    /\ RLe(call.min_gap, call.max_gap) => RLe(call.min_gap, ret) /\ RLe(ret, call.max_gap)
    /\ RLt(call.max_gap, call.min_gap) => ret = call.min_gap
    /\ gapRect(ret, call.min_gap, call.max_gap) = ret

\* a raw length above max_gap has been clamped down to max_gap
C5_Witness ==
  /\ phase = "helper_done"
  /\ call.gap_geom = "PLATE"
  /\ RLt(call.min_gap, call.max_gap)
  /\ RLt(call.max_gap, RSub(call.r2, call.r1))
  /\ ret = call.max_gap

\* C2: with contact information the derivative written to gap_conductance_dT
\* is 0 + sigma (3 T^2 + Tg (2 T + Tg)) / Fe when Fe # 0, and 0 when Fe = 0.
C2_DerivativeHasRadiationTerm ==
  LET e1 == pars.emissivity_1
      e2 == pars.emissivity_2
      Fe == IF e1 # I(0) /\ e2 # I(0)
            THEN RSub(RAdd(RDiv(I(1), e1), RDiv(I(1), e2)), I(1))
            ELSE I(0)
      T == ctx.temp
      Tg == m.gap_temp
      poly == RAdd(RMul(I(3), RMul(T, T)), RMul(Tg, RAdd(RMul(I(2), T), Tg)))
  IN  phase = "evaluated" /\ m.has_info =>
        out.gap_conductance_dT =
          IF Fe # I(0) THEN RDiv(RMul(pars.stefan_boltzmann, poly), Fe) ELSE I(0)

\* C3 as stated: PLATE, node-based, both emissivities 0, no scaling function:
\* a coupled gap_distance d with min_gap <= d <= max_gap gives effective gap
\* length d, conductance k0 / d and derivative 0.
C3_PositiveDistanceIsLength ==
  LET d == ctx.gap_distance_value
      L == gapLength(m.gap_geometry_type, m.radius, m.r1, m.r2, pars.min_gap, pars.max_gap)
  IN  /\ phase = "evaluated"
      /\ m.gap_geometry_type = "PLATE"
      /\ ~pars.quadrature
      /\ pars.emissivity_1 = I(0) /\ pars.emissivity_2 = I(0)
      /\ ~pars.gap_conductivity_function
      /\ RLe(pars.min_gap, d) /\ RLe(d, pars.max_gap)
      => /\ L = d
         /\ out.gap_conductance = RDiv(pars.gap_conductivity, d)
         /\ out.gap_conductance_dT = I(0)

\* C3 amended: PLATE, node-based, both emissivities 0, no scaling function:
\* a coupled gap_distance d < 0 with min_gap <= -d <= max_gap gives effective
\* gap length -d, conductance k0 / (-d) and derivative 0; k0 = 1, d = -0.02,
\* min_gap = 1e-6, max_gap = 1e6 gives conductance 50, and d = +0.02 there is
\* clamped to min_gap and gives conductance 1e6.
C3_NegatedDistanceIsLength ==
  LET d == ctx.gap_distance_value
      L == gapLength(m.gap_geometry_type, m.radius, m.r1, m.r2, pars.min_gap, pars.max_gap)
      plain == /\ phase = "evaluated"
               /\ m.gap_geometry_type = "PLATE"
               /\ ~pars.quadrature
               /\ pars.emissivity_1 = I(0) /\ pars.emissivity_2 = I(0)
               /\ ~pars.gap_conductivity_function
      scenario == /\ pars.gap_conductivity = I(1)
                  /\ pars.min_gap = Rat(1, 1000000)
                  /\ pars.max_gap = I(1000000)
  IN  /\ plain /\ RLt(d, I(0)) /\ RLe(pars.min_gap, RNeg(d)) /\ RLe(RNeg(d), pars.max_gap)
         => /\ L = RNeg(d)
            /\ out.gap_conductance = RDiv(pars.gap_conductivity, RNeg(d))
            /\ out.gap_conductance_dT = I(0)
      /\ plain /\ scenario /\ d = Rat(-1, 50)
         => out.gap_conductance = I(50) /\ out.gap_conductance_dT = I(0)
      /\ plain /\ scenario /\ d = Rat(1, 50)
         => L = pars.min_gap /\ out.gap_conductance = I(1000000)

\* the scenario with gap_distance = -0.02 has been evaluated to 50
C3_Witness ==
  /\ phase = "evaluated"
  /\ m.gap_geometry_type = "PLATE"
  /\ ~pars.quadrature
  /\ pars.emissivity_1 = I(0) /\ pars.emissivity_2 = I(0)
  /\ pars.min_gap = Rat(1, 1000000)
  /\ ctx.gap_distance_value = Rat(-1, 50)
  /\ out.gap_conductance = I(50)

\* C7: with contact information the conductance written is h_c + h_r with
\* h_c = k / L, h_r = 0 when either emissivity is 0, and
\* h_r = sigma (T^2 + Tg^2) (T + Tg) / Fe, Fe = 1/e1 + 1/e2 - 1, otherwise.
C7_ConductanceIsSum ==
  LET e1 == pars.emissivity_1
      e2 == pars.emissivity_2
      T == ctx.temp
      Tg == m.gap_temp
      k == IF pars.gap_conductivity_function
           THEN RMul(pars.gap_conductivity, ctx.function_value)
           ELSE pars.gap_conductivity
      L == gapLength(m.gap_geometry_type, m.radius, m.r1, m.r2, pars.min_gap, pars.max_gap)
      h_c == RDiv(k, L)
      h_r == IF e1 = I(0) \/ e2 = I(0) THEN I(0)
             ELSE RDiv(RMul(pars.stefan_boltzmann,
                            RMul(RAdd(RMul(T, T), RMul(Tg, Tg)), RAdd(T, Tg))),
                       RSub(RAdd(RDiv(I(1), e1), RDiv(I(1), e2)), I(1)))
  IN  phase = "evaluated" /\ m.has_info => out.gap_conductance = RAdd(h_c, h_r)

\* a point with contact information, both emissivities nonzero and
\* different temperatures on the two sides has been evaluated
C7_Witness ==
  /\ phase = "evaluated"
  /\ m.has_info
  /\ pars.emissivity_1 # I(0) /\ pars.emissivity_2 # I(0)
  /\ ctx.temp # m.gap_temp
  /\ out.gap_conductance # I(0)

\* C4 as stated: in quadrature mode a point for which the search returns no
\* match is evaluated to completion, for every geometry type, point and
\* normal, with conductance 0, derivative 0, has_info false, gap_distance
\* 88888 and gap_temp 0.
C4_NoMatchAlwaysCompletes ==
  /\ phase \in {"evaluated", "geometry_error"}
  /\ pars.quadrature
  /\ ~ctx.pinfo.found
  => /\ phase = "evaluated"
     /\ out.gap_conductance = I(0)
     /\ out.gap_conductance_dT = I(0)
     /\ ~m.has_info
     /\ m.gap_distance = I(88888)
     /\ m.gap_temp = I(0)

\* C4 amended: in quadrature mode a point for which the search returns no
\* match gets has_info false, gap_distance 88888 and gap_temp 0; for PLATE,
\* and for CYLINDER and SPHERE with a strictly positive or negative dot
\* product, the evaluation completes with conductance 0 and derivative 0;
\* for CYLINDER and SPHERE with a zero or NaN dot product it ends in the
\* geometry error of computeGapRadii.
C4_NoMatchCompletesUnlessDegenerate ==
  LET dot == NormalDot(m.gap_geometry_type, ctx.q_point, m.p1, m.p2, ctx.normal)
      sound == \/ m.gap_geometry_type = "PLATE"
               \/ RLt(I(0), dot)
               \/ RLt(dot, I(0))
  IN  /\ phase \in {"evaluated", "geometry_error"}
      /\ pars.quadrature
      /\ ~ctx.pinfo.found
      => /\ ~m.has_info
         /\ m.gap_distance = I(88888)
         /\ m.gap_temp = I(0)
         /\ sound => /\ phase = "evaluated"
                     /\ out.gap_conductance = I(0)
                     /\ out.gap_conductance_dT = I(0)
         /\ (~sound) => phase = "geometry_error"

\* a SPHERE point without a match has been evaluated, after another point
C4_Witness ==
  /\ phase = "evaluated"
  /\ calls = 2
  /\ pars.quadrature
  /\ ~ctx.pinfo.found
  /\ m.gap_geometry_type = "SPHERE"
  /\ out.gap_conductance = I(0)

\* C6 as stated: a CYLINDER or SPHERE evaluation ends in the geometry error,
\* with r1, r2, radius and both properties left as they were, when the dot
\* product is exactly 0, and completes when the dot product is not 0.
C6_ErrorIffZeroDot ==
  [][ /\ phase \in {"setup_done", "evaluated"}
      /\ calls' = calls + 1
      /\ m.gap_geometry_type \in {"CYLINDER", "SPHERE"}
      => LET dot == NormalDot(m.gap_geometry_type, ctx'.q_point, m.p1, m.p2, ctx'.normal)
         IN  /\ dot = I(0) => /\ phase' = "geometry_error"
                              /\ out' = out
                              /\ m'.r1 = m.r1 /\ m'.r2 = m.r2 /\ m'.radius = m.radius
             /\ dot # I(0) => phase' = "evaluated" ]_vars

\* C6 amended: a CYLINDER or SPHERE evaluation ends in the geometry error,
\* with r1, r2, radius and both properties left as they were, when the dot
\* product is exactly 0 or is NaN (the point lies on the cylinder axis, or
\* the two axis points coincide), and completes when the dot product is
\* strictly positive or strictly negative.
C6_ErrorIffZeroOrNaNDot ==
  [][ /\ phase \in {"setup_done", "evaluated"}
      /\ calls' = calls + 1
      /\ m.gap_geometry_type \in {"CYLINDER", "SPHERE"}
      => LET dot == NormalDot(m.gap_geometry_type, ctx'.q_point, m.p1, m.p2, ctx'.normal)
         IN  /\ dot = I(0) \/ IsNaN(dot) => /\ phase' = "geometry_error"
                                            /\ out' = out
                                            /\ m'.r1 = m.r1 /\ m'.r2 = m.r2
                                            /\ m'.radius = m.radius
             /\ RLt(I(0), dot) \/ RLt(dot, I(0)) => phase' = "evaluated" ]_vars

\* a CYLINDER point whose normal is perpendicular to the radial direction
\* has ended the second evaluation in the geometry error
C6_Witness ==
  /\ phase = "geometry_error"
  /\ calls = 2
  /\ m.gap_geometry_type = "CYLINDER"
  /\ NormalDot(m.gap_geometry_type, ctx.q_point, m.p1, m.p2, ctx.normal) = I(0)

\* C8: the members and properties a completed evaluation leaves are those a
\* freshly constructed object with the same geometry leaves on the same
\* evaluation point: nothing of an earlier evaluation is read.
C8_IndependentOfEarlierCalls ==
  phase = "evaluated" =>
    LET fresh == computeQpProperties(pars,
                                     [Constructed EXCEPT
                                        !.gap_geometry_type = m.gap_geometry_type,
                                        !.p1 = m.p1,
                                        !.p2 = m.p2],
                                     ctx, NoProperties)
    IN  (~fresh.err) /\ m = fresh.m /\ out = fresh.out

\* a matched quadrature point has been evaluated after another point
C8_Witness ==
  /\ phase = "evaluated"
  /\ calls = 2
  /\ pars.quadrature
  /\ ctx.pinfo.found
  /\ m.gap_temp # I(0)

\* C9: the geometry type and the points p1 and p2 change in initialSetup
\* only, before the first evaluation; no evaluation changes them.
C9_GeometryFixedAfterSetup ==
  [][ (m'.gap_geometry_type # m.gap_geometry_type \/ m'.p1 # m.p1 \/ m'.p2 # m.p2)
      => phase = "constructed" /\ calls = 0 /\ calls' = 0 ]_vars

\* a second evaluation has ended in the geometry error and the cylinder
\* axis given by the user is still in place
C9_Witness ==
  /\ phase = "geometry_error"
  /\ calls = 2
  /\ m.gap_geometry_type = "CYLINDER"
  /\ coord_sys = "XYZ"
  /\ m.p1 = pars.cylinder_axis_point_1.value
  /\ m.p2 = pars.cylinder_axis_point_2.value
  /\ m.p1 # m.p2

\* C10: after computeGapRadii, r2 - r1 = -gap_distance; PLATE has r1 = 0,
\* r2 = -gap_distance, radius = 0; CYLINDER and SPHERE have r1 = rad,
\* r2 = rad - gap_distance, radius = r1 for a positive dot product and
\* r1 = rad + gap_distance, r2 = rad, radius = r2 for a negative one, rad
\* being the distance of the point from the axis or the origin; and
\* gap_distance <= 0 gives r1 <= r2.
C10_RadiiDifferByGap ==
  LET gd == m.gap_distance
      t == m.gap_geometry_type
      dot == NormalDot(t, ctx.q_point, m.p1, m.p2, ctx.normal)
      cross(u, v) == <<RSub(RMul(u[2], v[3]), RMul(u[3], v[2])),
                       RSub(RMul(u[3], v[1]), RMul(u[1], v[3])),
                       RSub(RMul(u[1], v[2]), RMul(u[2], v[1]))>>
      distSq == IF t = "CYLINDER"
                THEN RDiv(VNormSq(cross(VSub(ctx.q_point, m.p1), VSub(m.p2, m.p1))),
                          VNormSq(VSub(m.p2, m.p1)))
                ELSE VNormSq(VSub(ctx.q_point, m.p1))
      isRad(r) == RLe(I(0), r) /\ RMul(r, r) = distSq
  IN  phase = "evaluated" =>
        /\ RSub(m.r2, m.r1) = RNeg(gd)
        /\ t = "PLATE" => m.r1 = I(0) /\ m.r2 = RNeg(gd) /\ m.radius = I(0)
        /\ t # "PLATE" /\ RLt(I(0), dot) =>
             isRad(m.r1) /\ m.r2 = RSub(m.r1, gd) /\ m.radius = m.r1
        /\ t # "PLATE" /\ RLt(dot, I(0)) =>
             isRad(m.r2) /\ m.r1 = RAdd(m.r2, gd) /\ m.radius = m.r2
        /\ t # "PLATE" => RLt(I(0), dot) \/ RLt(dot, I(0))
        /\ RLe(gd, I(0)) => RLe(m.r1, m.r2)

\* a point on the outer surface of a cylinder about a user-given axis has
\* been evaluated with a negative gap distance
C10_Witness ==
  /\ phase = "evaluated"
  /\ m.gap_geometry_type = "CYLINDER"
  /\ coord_sys = "XYZ"
  /\ RLt(NormalDot(m.gap_geometry_type, ctx.q_point, m.p1, m.p2, ctx.normal), I(0))
  /\ RLt(m.gap_distance, I(0))
  /\ RLt(m.r1, m.r2)

====
